---- MODULE Spec2Model ----
(***************************************************************************)
(* Model of the yaverapp HTTP backend: the route handlers of               *)
(* /api/auth and /api/users, the auth middleware, the AuthService, the     *)
(* UserRepository over the relational User table, and process start-up.   *)
(* One process per in-flight HTTP request; a process is suspended at       *)
(* every await of its handler, so the handlers of concurrent requests      *)
(* interleave at store calls and hashing calls.                            *)
(***************************************************************************)
EXTENDS Integers, Sequences, FiniteSets, TLC

VARIABLES
  env,       \* process.env.JWT_SECRET as the process was started
  phase,     \* "boot" | "running" | "exited"
  users,     \* rows of the User table
  now,       \* wall clock, in hours
  client,    \* what the HTTP client remembers: one issued token, one accepted credential
  keysUsed,  \* the keys jwt.sign / jwt.verify have been called with
  pc,        \* per request slot: where its handler is suspended
  req,       \* per request slot: the HTTP request
  loc,       \* per request slot: the handler's local variables
  resp,      \* per request slot: the HTTP response sent
  nreq       \* number of requests received so far

vars == <<env, phase, users, now, client, keysUsed, pc, req, loc, resp, nreq>>

----------------------------------------------------------------------------
(* Bounds of the model *)

MaxRequests == 3      \* requests received in one behaviour
MaxClock == 24        \* last hour the clock reaches
TickHours == 24       \* hours between two clock readings

(* Program constants *)

MinPasswordLength == 6   \* body('password').isLength({ min: 6 })
SaltRounds == 10         \* bcrypt.hash(userData.password, 10)
ExpiresInHours == 24     \* expiresIn: '24h'

(* Input alphabets *)

Procs == {1, 2}
Undef == "undefined"
Ids == {"id1", "id2"}
Usernames == {"alice", "bob"}
Emails == {"a@x.com", "b@x.com"}
BadEmail == "invalid-email"
Salts == {"s1"}

Fallback == "your-secret-key"
TestSecret == "test-jwt-secret-key"
AttackerKey == "attacker-key"
EnvValues == {Undef, "", TestSecret}

InvalidCredentialsMsg == "Invalid login credentials"
PleaseAuthenticateMsg == "Please authenticate"
UserNotFoundMsg == "User not found"
GenericMsg == "An unexpected error occurred"
BcryptTypeMsg == "data and hash must be strings"
BcryptHashTypeMsg == "data must be a string or Buffer and salt must either be a salt string or a number of rounds"
DbErrorMsg == "connect ECONNREFUSED 127.0.0.1:5432"
DuplicateKeyMsg == "duplicate key value violates unique constraint"
NotNullMsg == "null value violates not-null constraint"

----------------------------------------------------------------------------
(* JSON values of the password field of a request body *)

JsonStr(s) == [t |-> "string", v |-> s]
JsonNum(s) == [t |-> "number", v |-> s]
JsonUndef == [t |-> "undefined", v |-> ""]

Secret1 == JsonStr("secret1")    \* a password of 7 characters
Abc == JsonStr("abc")            \* a password of 3 characters
Num123456 == JsonNum("123456")   \* the JSON number 123456

(* Values of the password column *)

NoPw == [alg |-> "none", salt |-> "", text |-> ""]
PlainPw(j) == [alg |-> "plain", salt |-> "", text |-> j.v]

(* bcrypt.hash(data, 10): throws unless data is a string; the digest embeds its salt *)
BcryptHashThrows(data) == data.t # "string"
BcryptHash(data, salt) == [alg |-> "bcrypt", salt |-> salt, text |-> data.v]

(* bcrypt.compare(data, hash): throws unless data is a string; a stored value *)
(* that is no bcrypt digest compares false                                    *)
BcryptCompareThrows(data) == data.t # "string"
BcryptCompare(data, hash) == hash.alg = "bcrypt" /\ hash.text = data.v

----------------------------------------------------------------------------
(* JSON web tokens and the Authorization header *)

NoToken == [kind |-> "absent", id |-> "", exp |-> 0, key |-> ""]
MalformedToken == [kind |-> "malformed", id |-> "", exp |-> 0, key |-> ""]

(* process.env.JWT_SECRET || 'your-secret-key' *)
SecretOrFallback == IF env = Undef \/ env = "" THEN Fallback ELSE env

(* jwt.sign({ id }, key, { expiresIn: '24h' }) *)
JwtSign(id, key, t) == [kind |-> "jwt", id |-> id, exp |-> t + ExpiresInHours, key |-> key]

(* jwt.verify as it would be if it decoded without checking the signature *)
JwtVerifyIgnoringSignature(tok, key, t) == tok.kind = "jwt" /\ t < tok.exp

(* jwt.verify as it would be with ignoreExpiration set *)
JwtVerifyIgnoringExpiry(tok, key, t) == tok.kind = "jwt" /\ tok.key = key

(* jwt.verify(token, key): a well-formed token, signed with key, not yet expired *)
JwtVerifyOk(tok, key, t) == tok.kind = "jwt" /\ tok.key = key /\ t < tok.exp

(* AuthService.generateToken *)
generateToken(userId) == JwtSign(userId, SecretOrFallback, now)

(* validateEnv: cleanEnv with JWT_SECRET: str() rejects a missing variable; *)
(* a variable set to the empty string is a string and passes                 *)
validateEnv == env # Undef

----------------------------------------------------------------------------
(* express-validator chains of the auth routes *)

isEmail(e) == e \in Emails
isNotEmptyString(u) == u # Undef
(* isLength() as it would be without its min option *)
isLengthAny(j) == j.t # "undefined"

(* isLength({ min: 6 }) on the value turned into a string *)
isLengthMin(j) == j.t # "undefined" /\ Len(j.v) >= MinPasswordLength
exists(j) == j.t # "undefined"

RegisterErrors(b) ==
  (IF isNotEmptyString(b.username) THEN {} ELSE {[param |-> "username", value |-> b.username]})
  \cup (IF isEmail(b.email) THEN {} ELSE {[param |-> "email", value |-> b.email]})
  \cup (IF isLengthMin(b.password) THEN {} ELSE {[param |-> "password", value |-> b.password.v]})

TokenErrors(b) ==
  (IF isEmail(b.email) THEN {} ELSE {[param |-> "email", value |-> b.email]})
  \cup (IF exists(b.password) THEN {} ELSE {[param |-> "password", value |-> b.password.v]})

----------------------------------------------------------------------------
(* The User table and the UserRepository *)

NoUser == [id |-> Undef, username |-> Undef, email |-> Undef, password |-> NoPw]

(* @Column({ unique: true }) username, email; primary key id *)
Unique(rows) ==
  \A u, w \in rows :
    (u.id = w.id \/ u.username = w.username \/ u.email = w.email) => u = w

(* columns of an entity that carry a value *)
DefinedFields(e) ==
  {f \in {"id", "username", "email"} : e[f] # Undef}
  \cup (IF e.password # NoPw THEN {"password"} ELSE {})

Project(e, fields) == [f \in fields |-> e[f]]

(* findOne({ where: { id } }): password is a select: false column *)
findById(id) ==
  IF \E u \in users : u.id = id
  THEN LET u == CHOOSE u \in users : u.id = id IN [u EXCEPT !.password = NoPw]
  ELSE NoUser

(* findOne({ where: { email }, select: [..., 'password', ...] }) *)
findByEmail(email) ==
  IF \E u \in users : u.email = email
  THEN CHOOSE u \in users : u.email = email
  ELSE NoUser

(* PrimaryGeneratedColumn("uuid"): an id no row uses *)
FreeIds == {i \in Ids : \A u \in users : u.id # i}
GeneratedId == CHOOSE i \in FreeIds : TRUE

(* repository.save(entity): a row with the entity's id is updated with the  *)
(* columns the entity carries, otherwise a row is inserted                    *)
IsUpdate(e) == e.id # Undef /\ \E u \in users : u.id = e.id

Merged(e) ==
  LET u == CHOOSE u \in users : u.id = e.id IN
  [id |-> u.id,
   username |-> IF e.username # Undef THEN e.username ELSE u.username,
   email |-> IF e.email # Undef THEN e.email ELSE u.email,
   password |-> IF e.password # NoPw THEN e.password ELSE u.password]

Inserted(e) == [e EXCEPT !.id = IF e.id # Undef THEN e.id ELSE GeneratedId]

SavedRow(e) == IF IsUpdate(e) THEN Merged(e) ELSE Inserted(e)

RowsAfterSave(e) ==
  IF IsUpdate(e)
  THEN {u \in users : u.id # e.id} \cup {Merged(e)}
  ELSE users \cup {Inserted(e)}

(* the error save() raises, "" when it succeeds: a missing column of a new  *)
(* row, a duplicate of a unique column; a table that has used every id of    *)
(* Ids takes no further row and fails like an unreachable store              *)
SaveError(e) ==
  IF ~IsUpdate(e) /\ e.id = Undef /\ FreeIds = {} THEN DbErrorMsg
  ELSE IF ~IsUpdate(e) /\ DefinedFields(e) \cup {"id"} # {"id", "username", "email", "password"}
       THEN NotNullMsg
  ELSE IF ~Unique(RowsAfterSave(e)) THEN DuplicateKeyMsg
  ELSE ""

(* the entity save() returns: the entity it was given, its id filled in *)
SaveReturns(e) == [e EXCEPT !.id = SavedRow(e).id]

(* UserRepository.create: repository.create(userData) then repository.save *)
create(e) == RowsAfterSave(e)

----------------------------------------------------------------------------
(* Requests, handler locals and responses *)

NoBody == [id |-> Undef, username |-> Undef, email |-> Undef, password |-> JsonUndef]
NoReq == [route |-> "none", body |-> NoBody, header |-> NoToken, param |-> Undef]
NoLoc ==
  [user |-> NoUser, hashed |-> NoPw, userId |-> Undef, verifiedAt |-> 0,
   next |-> FALSE, replied |-> FALSE, fault |-> FALSE, dup |-> FALSE, added |-> FALSE,
   service |-> FALSE, known |-> FALSE]
NoResp == [status |-> 0, body |-> [none |-> TRUE]]
NoCred == [email |-> Undef, password |-> JsonUndef]

Reply(status, body) == [status |-> status, body |-> body]
ErrorBody(msg) == [error |-> msg]

(* bodies sent to POST /api/auth/register: well-formed ones, with and without *)
(* an id field, and ones a validator rejects                                   *)
RegisterBodies ==
  [id : {Undef, "id1"}, username : Usernames, email : Emails, password : {Secret1}]
  \cup [id : {Undef}, username : {"alice"}, email : {"a@x.com"},
        password : {Abc, Num123456, JsonUndef}]
  \cup [id : {Undef}, username : {"alice", Undef}, email : {BadEmail}, password : {Secret1}]

(* bodies sent to POST /api/users: whole users and partial ones *)
UserBodies ==
  [id : {Undef, "id1"}, username : {"alice"}, email : {"a@x.com"}, password : {Secret1}]
  \cup [id : {Undef, "id1"}, username : {"bob"}, email : {"b@x.com"}, password : {Secret1}]
  \cup [id : {"id1"}, username : {Undef}, email : {Undef}, password : {Secret1}]
  \cup [id : {"id1"}, username : {Undef}, email : {"b@x.com"}, password : {JsonUndef}]
  \cup [id : {Undef}, username : {"alice"}, email : {"a@x.com"}, password : {JsonUndef}]

(* bodies sent to POST /api/auth/token *)
TokenBodies ==
  [id : {Undef}, username : {Undef}, email : Emails, password : {Secret1, Abc, Num123456}]
  \cup [id : {Undef}, username : {Undef}, email : {BadEmail}, password : {Secret1}]
  \cup [id : {Undef}, username : {Undef}, email : {"a@x.com"}, password : {JsonUndef}]

(* the Authorization headers a client can send: none, garbage, the token it *)
(* was issued, and tokens it signs itself with keys it knows                  *)
Headers ==
  {NoToken, MalformedToken}
  \cup (IF client.token.kind = "jwt" THEN {client.token} ELSE {})
  \cup {JwtSign("id1", k, now) : k \in {AttackerKey, Fallback}}

----------------------------------------------------------------------------
(* Initial state: the process has been launched with some JWT_SECRET *)

Launched ==
  /\ phase = "boot"
  /\ users = {}
  /\ now = 0
  /\ client = [token |-> NoToken, cred |-> NoCred]
  /\ keysUsed = {}
  /\ pc = [p \in Procs |-> "idle"]
  /\ req = [p \in Procs |-> NoReq]
  /\ loc = [p \in Procs |-> NoLoc]
  /\ resp = [p \in Procs |-> NoResp]
  /\ nreq = 0

(* the deployment the tests configure: JWT_SECRET is set *)
Init == env = TestSecret /\ Launched

(* any deployment: JWT_SECRET missing, empty or set *)
InitAnyEnv == env \in EnvValues /\ Launched

(* module load of error.middleware: validateEnv() ends the process when it fails *)
Startup ==
  /\ phase = "boot"
  /\ phase' = IF validateEnv THEN "running" ELSE "exited"
  /\ UNCHANGED <<env, users, now, client, keysUsed, pc, req, loc, resp, nreq>>

(* a response is on the wire until the client has received it; the server's *)
(* next step comes after that                                                 *)
Delivered == \A q \in Procs : pc[q] # "done"

Tick ==
  /\ phase = "running"
  /\ Delivered
  /\ now + TickHours <= MaxClock
  /\ now' = now + TickHours
  /\ UNCHANGED <<env, phase, users, client, keysUsed, pc, req, loc, resp, nreq>>

(* a request arrives and takes the first idle slot *)
Arrives(p, r) ==
  /\ phase = "running"
  /\ Delivered
  /\ pc[p] = "idle"
  /\ \A q \in Procs : pc[q] = "idle" => p <= q
  /\ nreq < MaxRequests
  /\ nreq' = nreq + 1
  /\ req' = [req EXCEPT ![p] = r]

(* res.status(status).json(body) ends the request *)
Responds(p, status, body, l) ==
  /\ pc' = [pc EXCEPT ![p] = "done"]
  /\ resp' = [resp EXCEPT ![p] = Reply(status, body)]
  /\ loc' = [loc EXCEPT ![p] = l]

(* the handler is suspended at its next await *)
Suspends(p, at, l) ==
  /\ pc' = [pc EXCEPT ![p] = at]
  /\ loc' = [loc EXCEPT ![p] = l]
  /\ UNCHANGED resp

(* the client may keep the token a response carries *)
ClientKeeps(tok, cred) ==
  \E keepTok, keepCred \in BOOLEAN :
    client' = [token |-> IF keepTok THEN tok ELSE client.token,
               cred |-> IF keepCred /\ cred # NoCred THEN cred ELSE client.cred]

PublicUser(u) == Project(u, DefinedFields(u) \ {"password"})

----------------------------------------------------------------------------
(* POST /api/auth/register: validation, then AuthService.register up to the *)
(* await of bcrypt.hash                                                       *)
Register(p) ==
  \E b \in RegisterBodies, salt \in Salts :
    /\ Arrives(p, [NoReq EXCEPT !.route = "register", !.body = b])
    /\ IF RegisterErrors(b) # {}
       THEN Responds(p, 400, [errors |-> RegisterErrors(b)], NoLoc)
       ELSE IF BcryptHashThrows(b.password)
       THEN Responds(p, 400, ErrorBody(BcryptHashTypeMsg), [NoLoc EXCEPT !.service = TRUE])
       ELSE Suspends(p, "reg_save",
                     [NoLoc EXCEPT !.service = TRUE, !.hashed = BcryptHash(b.password, salt)])
    /\ UNCHANGED <<env, phase, users, now, client, keysUsed>>

(* AuthService.register from userRepository.create on, and the route's reply *)
RegisterSave(p) ==
  /\ Delivered
  /\ pc[p] = "reg_save"
  /\ \E fault \in BOOLEAN :
       LET b == req[p].body
           e == [id |-> b.id, username |-> b.username, email |-> b.email,
                 password |-> loc[p].hashed]
           dup == \E u \in users : u.username = e.username \/ u.email = e.email
           l == [loc[p] EXCEPT !.dup = dup, !.fault = fault]
       IN IF fault
          THEN /\ Responds(p, 400, ErrorBody(DbErrorMsg), l)
               /\ UNCHANGED <<users, client, keysUsed>>
          ELSE IF SaveError(e) # ""
          THEN /\ Responds(p, 400, ErrorBody(SaveError(e)), l)
               /\ UNCHANGED <<users, client, keysUsed>>
          ELSE LET user == SaveReturns(e)
                   token == generateToken(user.id)
               IN /\ users' = create(e)
                  /\ keysUsed' = keysUsed \cup {SecretOrFallback}
                  /\ Responds(p, 201, [user |-> PublicUser(user), token |-> token],
                              [l EXCEPT !.added = ~IsUpdate(e)])
                  /\ ClientKeeps(token, [email |-> b.email, password |-> b.password])
  /\ UNCHANGED <<env, phase, now, req, nreq>>

(* POST /api/auth/token: validation, then AuthService.login up to the await  *)
(* of bcrypt.compare                                                          *)
Token(p) ==
  \E b \in TokenBodies, fault \in BOOLEAN :
    LET l == [NoLoc EXCEPT !.service = TRUE,
                           !.known = (client.cred = [email |-> b.email, password |-> b.password])]
    IN
    /\ Arrives(p, [NoReq EXCEPT !.route = "token", !.body = b])
    /\ IF TokenErrors(b) # {}
       THEN Responds(p, 400, [errors |-> TokenErrors(b)], NoLoc)
       ELSE IF fault
       THEN Responds(p, 401, ErrorBody(DbErrorMsg), [l EXCEPT !.fault = TRUE])
       ELSE IF findByEmail(b.email) = NoUser
       THEN Responds(p, 401, ErrorBody(InvalidCredentialsMsg), l)
       ELSE Suspends(p, "tok_compare", [l EXCEPT !.user = findByEmail(b.email)])
    /\ UNCHANGED <<env, phase, users, now, client, keysUsed>>

(* AuthService.login from the result of bcrypt.compare on, and the route's reply *)
TokenCompare(p) ==
  /\ Delivered
  /\ pc[p] = "tok_compare"
  /\ LET b == req[p].body
         user == loc[p].user
     IN IF BcryptCompareThrows(b.password)
        THEN /\ Responds(p, 401, ErrorBody(BcryptTypeMsg), loc[p])
             /\ UNCHANGED <<client, keysUsed>>
        ELSE IF ~BcryptCompare(b.password, user.password)
        THEN /\ Responds(p, 401, ErrorBody(InvalidCredentialsMsg), loc[p])
             /\ UNCHANGED <<client, keysUsed>>
        ELSE LET token == generateToken(user.id)
             IN /\ keysUsed' = keysUsed \cup {SecretOrFallback}
                /\ Responds(p, 200, [user |-> PublicUser(user), token |-> token], loc[p])
                /\ ClientKeeps(token, NoCred)
  /\ UNCHANGED <<env, phase, users, now, req, nreq>>

(* the auth middleware in front of GET /api/auth/login and GET /api/users/login *)
auth(p, route, at) ==
  \E h \in Headers :
    /\ Arrives(p, [NoReq EXCEPT !.route = route, !.header = h])
    /\ IF h.kind = "absent"
       THEN /\ Responds(p, 401, ErrorBody(PleaseAuthenticateMsg), [NoLoc EXCEPT !.replied = TRUE])
            /\ UNCHANGED keysUsed
       ELSE /\ keysUsed' = keysUsed \cup {SecretOrFallback}
            /\ IF JwtVerifyOk(h, SecretOrFallback, now)
               THEN Suspends(p, at, [NoLoc EXCEPT !.userId = h.id, !.next = TRUE,
                                                  !.verifiedAt = now])
               ELSE Responds(p, 401, ErrorBody(PleaseAuthenticateMsg),
                             [NoLoc EXCEPT !.verifiedAt = now, !.replied = TRUE])
    /\ UNCHANGED <<env, phase, users, now, client>>

AuthLogin(p) == auth(p, "authLogin", "al_find")
UsersLogin(p) == auth(p, "usersLogin", "ul_find")

(* the handler behind the middleware: findById, strip the password, reply *)
CurrentUser(p, at, catchStatus) ==
  /\ Delivered
  /\ pc[p] = at
  /\ \E fault \in BOOLEAN :
       LET user == findById(loc[p].userId)
           l == [loc[p] EXCEPT !.fault = fault]
       IN IF fault THEN Responds(p, catchStatus, ErrorBody(DbErrorMsg), l)
          ELSE IF user = NoUser THEN Responds(p, 404, ErrorBody(UserNotFoundMsg), l)
          ELSE Responds(p, 200, PublicUser(user), l)
  /\ UNCHANGED <<env, phase, users, now, client, keysUsed, req, nreq>>

(* GET /api/auth/login answers a caught failure with 500 *)
AuthLoginFind(p) == CurrentUser(p, "al_find", 500)
(* GET /api/users/login answers a caught failure with 400 *)
UsersLoginFind(p) == CurrentUser(p, "ul_find", 400)

(* POST /api/users: userRepository.create(req.body), reply with the entity *)
UsersCreate(p) ==
  \E b \in UserBodies, fault \in BOOLEAN :
    LET e == [id |-> b.id, username |-> b.username, email |-> b.email,
              password |-> IF b.password.t = "undefined" THEN NoPw ELSE PlainPw(b.password)]
        dup == \E u \in users : u.username = e.username \/ u.email = e.email
        l == [NoLoc EXCEPT !.dup = dup, !.fault = fault]
        user == SaveReturns(e)
    IN /\ Arrives(p, [NoReq EXCEPT !.route = "usersCreate", !.body = b])
       /\ IF fault
          THEN Responds(p, 400, ErrorBody(DbErrorMsg), l) /\ UNCHANGED users
          ELSE IF SaveError(e) # ""
          THEN Responds(p, 400, ErrorBody(SaveError(e)), l) /\ UNCHANGED users
          ELSE /\ users' = create(e)
               /\ Responds(p, 201, Project(user, DefinedFields(user)),
                           [l EXCEPT !.added = ~IsUpdate(e)])
       /\ UNCHANGED <<env, phase, now, client, keysUsed>>

(* GET /api/users/:id *)
UsersGet(p) ==
  \E id \in Ids, fault \in BOOLEAN :
    LET user == findById(id)
        l == [NoLoc EXCEPT !.fault = fault]
    IN /\ Arrives(p, [NoReq EXCEPT !.route = "usersGet", !.param = id])
       /\ IF fault THEN Responds(p, 400, ErrorBody(DbErrorMsg), l)
          ELSE IF user = NoUser THEN Responds(p, 404, ErrorBody(UserNotFoundMsg), l)
          ELSE Responds(p, 200, Project(user, DefinedFields(user)), l)
       /\ UNCHANGED <<env, phase, users, now, client, keysUsed>>

(* a body express.json() cannot parse goes to the final error handler *)
errorHandler(p) ==
  /\ Arrives(p, [NoReq EXCEPT !.route = "badJson"])
  /\ Responds(p, 500, ErrorBody(GenericMsg), NoLoc)
  /\ UNCHANGED <<env, phase, users, now, client, keysUsed>>

(* the response has been delivered; the slot serves the next request *)
Done(p) ==
  /\ pc[p] = "done"
  /\ pc' = [pc EXCEPT ![p] = "idle"]
  /\ req' = [req EXCEPT ![p] = NoReq]
  /\ loc' = [loc EXCEPT ![p] = NoLoc]
  /\ resp' = [resp EXCEPT ![p] = NoResp]
  /\ UNCHANGED <<env, phase, users, now, client, keysUsed, nreq>>

Next ==
  \/ Startup
  \/ Tick
  \/ \E p \in Procs : Register(p)
  \/ \E p \in Procs : RegisterSave(p)
  \/ \E p \in Procs : Token(p)
  \/ \E p \in Procs : TokenCompare(p)
  \/ \E p \in Procs : AuthLogin(p)
  \/ \E p \in Procs : AuthLoginFind(p)
  \/ \E p \in Procs : UsersLogin(p)
  \/ \E p \in Procs : UsersLoginFind(p)
  \/ \E p \in Procs : UsersCreate(p)
  \/ \E p \in Procs : UsersGet(p)
  \/ \E p \in Procs : errorHandler(p)
  \/ \E p \in Procs : Done(p)

Spec == Init /\ [][Next]_vars

SpecAnyEnv == InitAnyEnv /\ [][Next]_vars

----------------------------------------------------------------------------
(* Vocabulary of the properties *)

IsDone(p) == pc[p] = "done"
Protected == {"authLogin", "usersLogin"}
HasError(body) == DOMAIN body = {"error"}
HasToken(body) == "token" \in DOMAIN body

(* the header carries a token the server's key signed and that had not expired *)
(* at hour t                                                                    *)
Verifies(h, t) == h.kind = "jwt" /\ h.key = SecretOrFallback /\ t < h.exp

(* a token signed with a secret no client knows: register or login issued it *)
IssuedByServer(h) ==
  h.kind = "jwt" /\ h.key = SecretOrFallback /\ h.key \notin {AttackerKey, Fallback}

(* the password sent is the one the stored digest was computed from *)
PasswordMatches(j, stored) == j.t = "string" /\ stored.alg = "bcrypt" /\ stored.text = j.v

----------------------------------------------------------------------------
(* C1: a login with a well-formed email that fails because the email is not  *)
(* registered or because the password does not match the stored hash is      *)
(* answered 401 {error: 'Invalid login credentials'} in both cases, without a *)
(* token.                                                                     *)
C1_InvalidCredentialsIndistinguishable ==
  \A p \in Procs :
    (/\ IsDone(p)
     /\ req[p].route = "token"
     /\ TokenErrors(req[p].body) = {}
     /\ ~loc[p].fault
     /\ (loc[p].user = NoUser \/ ~PasswordMatches(req[p].body.password, loc[p].user.password)))
    => resp[p] = Reply(401, ErrorBody(InvalidCredentialsMsg))

(* C2: the user object register returns has no password field, and a login  *)
(* sent after an accepted registration, with its email and password,         *)
(* succeeds with a user and a token, whatever was processed in between.      *)
C2_RegisterThenLogin ==
  \A p \in Procs :
    /\ (IsDone(p) /\ req[p].route = "register" /\ resp[p].status = 201)
         => "password" \notin DOMAIN resp[p].body.user
    /\ (IsDone(p) /\ req[p].route = "token" /\ loc[p].known /\ ~loc[p].fault)
         => (resp[p].status = 200 /\ DOMAIN resp[p].body = {"user", "token"})

(* C3: no response of any route handler contains a password field. *)
C3_NoPasswordInResponses ==
  \A p \in Procs :
    IsDone(p) =>
      /\ "password" \notin DOMAIN resp[p].body
      /\ ("user" \in DOMAIN resp[p].body => "password" \notin DOMAIN resp[p].body.user)

(* C4: the password of every persisted user is a digest of the Credential   *)
(* Hasher; no request persists a client-supplied password unhashed.          *)
C4_StoredPasswordsHashed == \A u \in users : u.password.alg = "bcrypt"

(* C5: on a protected route a token issued for user U and not expired yields *)
(* the record whose id is U's id, never another record; a token whose        *)
(* signature does not verify under the server's key is answered 401.         *)
C5_TokenResolvesToOwnRecord ==
  \A p \in Procs :
    (IsDone(p) /\ req[p].route \in Protected) =>
      LET h == req[p].header IN
      /\ (h.kind = "jwt" /\ h.key # SecretOrFallback) => resp[p].status = 401
      /\ resp[p].status = 200 => (h.kind = "jwt" /\ resp[p].body.id = h.id)
      /\ (IssuedByServer(h) /\ loc[p].verifiedAt < h.exp /\ ~loc[p].fault)
           => (resp[p].status = 200 /\ resp[p].body.id = h.id)

C5_Witness ==
  \E p \in Procs :
    /\ IsDone(p) /\ req[p].route \in Protected
    /\ IssuedByServer(req[p].header)
    /\ resp[p].status = 200 /\ resp[p].body.id = req[p].header.id
    /\ \E u \in users : u.id # req[p].header.id

(* C6: the handler of a protected route is entered only after the middleware *)
(* verified the token and attached its subject id; a request whose header is *)
(* absent, malformed, wrongly signed or expired ends with 401 {error}, never *)
(* reaches the handler, and the middleware never both replies and calls next.*)
C6_HandlerOnlyAfterAuth ==
  \A p \in Procs :
    req[p].route \in Protected =>
      LET h == req[p].header
          ok == Verifies(h, loc[p].verifiedAt)
      IN
      /\ (pc[p] \in {"al_find", "ul_find"} \/ loc[p].next)
           => (ok /\ loc[p].userId = h.id)
      /\ ~ok => (/\ IsDone(p)
                 /\ resp[p].status = 401
                 /\ HasError(resp[p].body)
                 /\ ~loc[p].next)
      /\ ~(loc[p].next /\ loc[p].replied)
      /\ pc[p] \in {"al_find", "ul_find"} => resp[p] = NoResp

C6_Witness ==
  \E p \in Procs :
    /\ IsDone(p) /\ req[p].route \in Protected
    /\ req[p].header.kind = "jwt" /\ req[p].header.key = SecretOrFallback
    /\ loc[p].verifiedAt >= req[p].header.exp
    /\ resp[p].status = 401 /\ ~loc[p].next

(* C7: the User table never holds two rows with the same username or email, *)
(* and a register or create request whose username or email is already      *)
(* stored is answered 400 {error}, adds no row and issues no token.          *)
C7_UniqueAndDuplicateRejected ==
  /\ Unique(users)
  /\ \A p \in Procs :
       (IsDone(p) /\ req[p].route \in {"register", "usersCreate"} /\ loc[p].dup)
       => (/\ resp[p].status = 400
           /\ HasError(resp[p].body)
           /\ ~loc[p].added
           /\ ~HasToken(resp[p].body))

(* C8: a register request whose password has fewer than 6 characters is     *)
(* answered 400 {errors}, the Auth Service is not called and the User table  *)
(* is left as it was.                                                        *)
C8_ShortPasswordRejected ==
  [][\A p \in Procs :
       (/\ pc[p] = "idle" /\ pc'[p] # "idle"
        /\ req'[p].route = "register"
        /\ req'[p].body.password.t = "string"
        /\ Len(req'[p].body.password.v) < 6)
       => (/\ pc'[p] = "done"
           /\ resp'[p].status = 400
           /\ DOMAIN resp'[p].body = {"errors"}
           /\ ~loc'[p].service
           /\ users' = users)]_vars

C8_Witness ==
  \E p \in Procs :
    /\ IsDone(p) /\ req[p].route = "register"
    /\ req[p].body.password = Abc
    /\ resp[p].status = 400 /\ DOMAIN resp[p].body = {"errors"}
    /\ users # {}

(* C9: without a configured JWT_SECRET the process does not get past        *)
(* start-up, and every key a token is signed or verified with is the         *)
(* configured secret, never the hardcoded fallback.                          *)
C9_NoFallbackKey ==
  /\ (env = Undef => phase # "running")
  /\ \A k \in keysUsed : k = env /\ k # Fallback

(* C10: a failure of a store, hashing or token call ends the request with   *)
(* one error response, and every 500 response carries the generic message.  *)
C10_FailuresCaughtGeneric500 ==
  \A p \in Procs :
    /\ loc[p].fault => (IsDone(p) /\ resp[p].status >= 400 /\ HasError(resp[p].body))
    /\ (IsDone(p) /\ resp[p].status = 500) => resp[p].body = ErrorBody(GenericMsg)

====
